---- MODULE Spec2Model ----
(***************************************************************************)
(* GSTR2B consolidator (CONSO2B.py): column-name normalisation, header     *)
(* detection, table cleaning and the multi-file consolidation loop.        *)
(*                                                                         *)
(* Text is a sequence of one-character strings, so that trimming, letter   *)
(* case and substring search are computed and not assumed.  A missing cell *)
(* (pandas NaN) and Python's None are two reserved one-element sequences   *)
(* that no text can equal.                                                 *)
(***************************************************************************)
EXTENDS Integers, Sequences, FiniteSets, TLC

VARIABLES
    cols,          \* make_unique_columns: the argument list
    unique_cols,   \* make_unique_columns: the returned list
    col,           \* sanitize_column_name: the value argument
    index,         \* sanitize_column_name: the index argument (0-based)
    clean_col,     \* sanitize_column_name: the returned name
    df_raw,        \* the raw grid handed to the header detectors
    search_text,   \* find_header_row: the marker argument
    header_idx,    \* find_header_row: the returned Optional index
    df_processed,  \* check_two_row_header: the returned Optional table
    files_data,         \* st.session_state.files_data
    selected_sheets,    \* st.session_state.selected_sheets
    processing_logs,    \* st.session_state.processing_logs
    consolidated_df,    \* st.session_state.consolidated_df (Optional)
    selected_columns,   \* st.session_state.selected_columns
    page,               \* st.session_state.page
    all_sheets,         \* st.session_state.all_sheets
    uploaded_files,     \* the files held by the st.file_uploader widget
    all_dataframes,     \* consolidate_data: the accumulator
    total_operations,   \* consolidate_data
    current_operation,  \* consolidate_data
    file_pos,           \* consolidate_data: files already left by the outer loop
    sheet_pos,          \* consolidate_data: sheets already left by the inner loop
    available_sheets,   \* consolidate_data: sheets of the current file
    progress,           \* values given to progress_bar.progress, as <<num, den>>
    status_text,        \* pairs given to status_text.text, as <<file, sheet>> positions
    loader_calls,       \* pairs read_file_with_header was called for
    pc             \* position of the running call

nameVars == <<cols, unique_cols, col, index, clean_col>>
headerVars == <<df_raw, search_text, header_idx, df_processed>>
sessionVars == <<files_data, selected_sheets, processing_logs, consolidated_df, selected_columns>>
uiVars == <<page, all_sheets, uploaded_files>>
runVars == <<all_dataframes, total_operations, current_operation, file_pos, sheet_pos,
             available_sheets, progress, status_text, loader_calls>>
vars == <<nameVars, headerVars, sessionVars, uiVars, runVars, pc>>

(***************************************************************************)
(* Bounds of the model.                                                    *)
(***************************************************************************)
MaxCols == 3
MaxGridCols == 2
MaxDataRows == 2
MaxGridRows == 26
MaxFiles == 2
MaxSelected == 2

(***************************************************************************)
(* Values and text.                                                        *)
(***************************************************************************)
NaN == <<"<NaN>">>
None == <<"<None>">>
NoResult == <<"<no result>">>

UpperLetters == <<"A","B","C","D","E","F","G","H","I","J","K","L","M",
                  "N","O","P","Q","R","S","T","U","V","W","X","Y","Z">>
LowerLetters == <<"a","b","c","d","e","f","g","h","i","j","k","l","m",
                  "n","o","p","q","r","s","t","u","v","w","x","y","z">>
DecimalDigits == <<"0","1","2","3","4","5","6","7","8","9">>
Whitespace == {" ", "\t", "\n", "\r"}

\* str.lower() on one character
LowerChar(c) ==
    IF \E k \in DOMAIN UpperLetters : UpperLetters[k] = c
    THEN LowerLetters[CHOOSE k \in DOMAIN UpperLetters : UpperLetters[k] = c]
    ELSE c

\* str.lower()
Lower(s) == [k \in DOMAIN s |-> LowerChar(s[k])]

\* str.strip(): drop leading and trailing whitespace
RECURSIVE LStrip(_)
LStrip(s) ==
    IF s # <<>> /\ Head(s) \in Whitespace THEN LStrip(Tail(s)) ELSE s

RECURSIVE RStrip(_)
RStrip(s) ==
    IF s # <<>> /\ s[Len(s)] \in Whitespace
    THEN RStrip(SubSeq(s, 1, Len(s) - 1))
    ELSE s

Strip(s) == RStrip(LStrip(s))

\* the `in` operator on two strings: needle is a substring of hay
Contains(hay, needle) ==
    \E k \in 0..(Len(hay) - Len(needle)) :
        SubSeq(hay, k + 1, k + Len(needle)) = needle

\* str() of a non-negative int
RECURSIVE IntToStr(_)
IntToStr(n) ==
    IF n < 10 THEN <<DecimalDigits[n + 1]>>
    ELSE IntToStr(n \div 10) \o <<DecimalDigits[(n % 10) + 1]>>

\* str() of a cell value: a float NaN prints as nan, None as None
Str(v) ==
    IF v = NaN THEN <<"n","a","n">>
    ELSE IF v = None THEN <<"N","o","n","e">>
    ELSE v

\* f"Column_{index}"
ColumnPlaceholder(i) == <<"C","o","l","u","m","n","_">> \o IntToStr(i)

\* sanitize_column_name comparing with 'nan'/'none' without .lower()
sanitize_column_name_CaseSensitive(c, i) ==
    IF c = None \/ c = NaN THEN ColumnPlaceholder(i)
    ELSE LET col_str == Strip(Str(c)) IN
         IF col_str = <<>> \/ col_str \in {<<"n","a","n">>, <<"n","o","n","e">>, <<>>}
         THEN ColumnPlaceholder(i)
         ELSE col_str

sanitize_column_name(c, i) ==
    IF c = None \/ c = NaN THEN ColumnPlaceholder(i)
    ELSE LET col_str == Strip(Str(c)) IN
         IF col_str = <<>> \/ Lower(col_str) \in {<<"n","a","n">>, <<"n","o","n","e">>, <<>>}
         THEN ColumnPlaceholder(i)
         ELSE col_str

(***************************************************************************)
(* make_unique_columns(cols): the loop over enumerate(cols), with the dict *)
(* `seen` as a function from the names met so far to their repeat counter. *)
(***************************************************************************)
\* make_unique_columns with the repeat counter of a new name starting at 1
RECURSIVE MakeUniqueLoop_CounterFromOne(_, _, _, _)
MakeUniqueLoop_CounterFromOne(cs, idx, seen, out) ==
    IF idx >= Len(cs) THEN out
    ELSE LET c == sanitize_column_name(cs[idx + 1], idx) IN
         IF c \notin DOMAIN seen
         THEN MakeUniqueLoop_CounterFromOne(cs, idx + 1,
                  [x \in DOMAIN seen \cup {c} |-> IF x = c THEN 1 ELSE seen[x]],
                  Append(out, c))
         ELSE MakeUniqueLoop_CounterFromOne(cs, idx + 1,
                  [seen EXCEPT ![c] = seen[c] + 1],
                  Append(out, c \o <<"_">> \o IntToStr(seen[c] + 1)))

RECURSIVE MakeUniqueLoop(_, _, _, _)
MakeUniqueLoop(cs, idx, seen, out) ==
    IF idx >= Len(cs) THEN out
    ELSE LET c == sanitize_column_name(cs[idx + 1], idx) IN
         IF c \notin DOMAIN seen
         THEN MakeUniqueLoop(cs, idx + 1,
                  [x \in DOMAIN seen \cup {c} |-> IF x = c THEN 0 ELSE seen[x]],
                  Append(out, c))
         ELSE MakeUniqueLoop(cs, idx + 1,
                  [seen EXCEPT ![c] = seen[c] + 1],
                  Append(out, c \o <<"_">> \o IntToStr(seen[c] + 1)))

make_unique_columns(cs) == MakeUniqueLoop(cs, 0, <<>>, <<>>)

(***************************************************************************)
(* Tables.  A raw grid (a DataFrame read with header=None) is a sequence   *)
(* of rows, each row a sequence of cells, a cell being NaN or a text.  A   *)
(* DataFrame with named columns is a record of its column labels and its   *)
(* rows; labels and cells are addressed by position, as pandas does when   *)
(* labels repeat.  An Optional result is <<>> (None) or <<value>>.         *)
(***************************************************************************)
Sentinel == <<"-">>

DataFrame(columns, rows) == [columns |-> columns, rows |-> rows]

EmptyFrame == DataFrame(<<>>, <<>>)

\* the subsequence of s at the positions satisfying keep, in order
RECURSIVE SelectPositions(_, _, _)
SelectPositions(s, keep, k) ==
    IF k > Len(s) THEN <<>>
    ELSE (IF k \in keep THEN <<s[k]>> ELSE <<>>) \o SelectPositions(s, keep, k + 1)

\* df.dropna(axis=0, how='all'): a row stays if it has a cell that is not NaN
DropEmptyRows(rows) ==
    SelectPositions(rows, {r \in DOMAIN rows : \E j \in DOMAIN rows[r] : rows[r][j] # NaN}, 1)

\* df.dropna(axis=1, how='all'): the positions of the columns that stay
NonEmptyColumns(columns, rows) ==
    {j \in DOMAIN columns : \E r \in DOMAIN rows : rows[r][j] # NaN}

\* df.fillna(value)
FillNa(rows, value) ==
    [r \in DOMAIN rows |-> [j \in DOMAIN rows[r] |-> IF rows[r][j] = NaN THEN value ELSE rows[r][j]]]

\* clean_dataframe(df)
clean_dataframe(df) ==
    LET rows1 == DropEmptyRows(df.rows)
        keep == NonEmptyColumns(df.columns, rows1)
        rows2 == [r \in DOMAIN rows1 |-> SelectPositions(rows1[r], keep, 1)]
        columns2 == SelectPositions(df.columns, keep, 1)
    IN DataFrame(make_unique_columns(columns2), FillNa(rows2, Sentinel))

\* df.iloc[k:] on the rows (k 0-based)
IlocFrom(rows, k) == SubSeq(rows, k + 1, Len(rows))

\* number of columns of a raw grid
GridWidth(grid) == IF grid = <<>> THEN 0 ELSE Len(grid[1])

(***************************************************************************)
(* check_two_row_header(df)                                                *)
(***************************************************************************)
InvoiceDetails == <<"i","n","v","o","i","c","e"," ","d","e","t","a","i","l","s">>
TaxDetails == <<"t","a","x"," ","d","e","t","a","i","l","s">>

\* the header built from row5[i] and row4[i], sub name first
CombinedHeader_SubFirst(row4, row5, i) ==
    LET main == sanitize_column_name(row4[i + 1], i)
        sub == sanitize_column_name(row5[i + 1], i)
    IN IF main # <<>> /\ sub # <<>> /\ main # ColumnPlaceholder(i) /\ sub # ColumnPlaceholder(i)
       THEN sub \o <<"_">> \o main
       ELSE IF main # <<>> /\ main # ColumnPlaceholder(i) THEN main
       ELSE IF sub # <<>> /\ sub # ColumnPlaceholder(i) THEN sub
       ELSE ColumnPlaceholder(i)

\* the header built from row4[i] and row5[i] (i 0-based)
CombinedHeader(row4, row5, i) ==
    LET main == sanitize_column_name(row4[i + 1], i)
        sub == sanitize_column_name(row5[i + 1], i)
    IN IF main # <<>> /\ sub # <<>> /\ main # ColumnPlaceholder(i) /\ sub # ColumnPlaceholder(i)
       THEN main \o <<"_">> \o sub
       ELSE IF main # <<>> /\ main # ColumnPlaceholder(i) THEN main
       ELSE IF sub # <<>> /\ sub # ColumnPlaceholder(i) THEN sub
       ELSE ColumnPlaceholder(i)

\* check_two_row_header taking the data from row 5 on (df.iloc[5:])
check_two_row_header_DataFromRow5(df) ==
    IF Len(df) < 6 THEN <<>>
    ELSE LET row4 == [j \in DOMAIN df[5] |-> IF df[5][j] = NaN THEN <<>> ELSE df[5][j]]
             row5 == [j \in DOMAIN df[6] |-> IF df[6][j] = NaN THEN <<>> ELSE df[6][j]]
             marker_found ==
                 \E j \in DOMAIN row4 :
                     \/ Contains(Lower(Str(row4[j])), InvoiceDetails)
                     \/ Contains(Lower(Str(row4[j])), TaxDetails)
         IN IF marker_found
            THEN LET combined_headers == [j \in DOMAIN row4 |-> CombinedHeader(row4, row5, j - 1)]
                     df_new == DataFrame(make_unique_columns(combined_headers), IlocFrom(df, 5))
                 IN <<clean_dataframe(df_new)>>
            ELSE <<>>

check_two_row_header(df) ==
    IF Len(df) < 6 THEN <<>>
    ELSE LET row4 == [j \in DOMAIN df[5] |-> IF df[5][j] = NaN THEN <<>> ELSE df[5][j]]
             row5 == [j \in DOMAIN df[6] |-> IF df[6][j] = NaN THEN <<>> ELSE df[6][j]]
             marker_found ==
                 \E j \in DOMAIN row4 :
                     \/ Contains(Lower(Str(row4[j])), InvoiceDetails)
                     \/ Contains(Lower(Str(row4[j])), TaxDetails)
         IN IF marker_found
            THEN LET combined_headers == [j \in DOMAIN row4 |-> CombinedHeader(row4, row5, j - 1)]
                     df_new == DataFrame(make_unique_columns(combined_headers), IlocFrom(df, 6))
                 IN <<clean_dataframe(df_new)>>
            ELSE <<>>

(***************************************************************************)
(* find_header_row(df, search_text)                                        *)
(***************************************************************************)
HeaderScanRows == 20

GstinOfSupplier == <<"G","S","T","I","N"," ","o","f"," ","s","u","p","p","l","i","e","r">>

Min(a, b) == IF a < b THEN a ELSE b

\* the loop `for idx in range(min(20, len(df)))` from idx on
RECURSIVE FindHeaderLoop(_, _, _)
FindHeaderLoop(df, text, idx) ==
    IF idx >= Min(HeaderScanRows, Len(df)) THEN <<>>
    ELSE IF \E j \in DOMAIN df[idx + 1] :
                /\ df[idx + 1][j] # NaN
                /\ Contains(Lower(Str(df[idx + 1][j])), Lower(text))
         THEN <<idx>>
         ELSE FindHeaderLoop(df, text, idx + 1)

\* find_header_row scanning every row of the grid (no 20-row limit)
find_header_row_NoScanLimit(df, text) ==
    LET hits == {i \in 0..(Len(df) - 1) :
                    \E j \in DOMAIN df[i + 1] :
                        /\ df[i + 1][j] # NaN
                        /\ Contains(Lower(Str(df[i + 1][j])), Lower(text))}
    IN IF hits = {} THEN <<>> ELSE <<CHOOSE i \in hits : \A k \in hits : i <= k>>

find_header_row(df, text) == FindHeaderLoop(df, text, 0)

(***************************************************************************)
(* Inputs of the name functions.                                           *)
(***************************************************************************)
RawNames ==
    { NaN, None, <<>>, <<" ">>,
      <<"A">>, <<" ","A"," ">>, <<"A","_","1">>, <<"B">>,
      <<"n","A","n">>, <<"N","o","n","e">>,
      <<"C","o","l","u","m","n","_","1">> }

\* the sequences over S of length at most n
RECURSIVE SeqsUpTo(_, _)
SeqsUpTo(S, n) == IF n = 0 THEN {<<>>} ELSE SeqsUpTo(S, n - 1) \cup [1..n -> S]

(***************************************************************************)
(* Cell texts used in the raw grids.                                       *)
(***************************************************************************)
TextInvoice == <<"I","n","v","o","i","c","e"," ","D","e","t","a","i","l","s">>
TextTax == <<"T","A","X"," ","d","e","t","a","i","l","s"," ","(","R","s",")">>
TextGstin == <<"G","S","T","I","N"," ","o","f"," ","s","u","p","p","l","i","e","r">>
TextGstinMixed == <<" ","g","s","t","i","n"," ","O","F"," ","S","u","p","p","l","i","e","r",":">>
TextTitle == <<"G","S","T","R","-","2","B">>
TextA == <<"A">>
TextOne == <<"1">>
TextNan == <<"n","a","n">>

(***************************************************************************)
(* Processing log.  add_log appends one entry; an entry keeps the severity *)
(* (the icon), which message it is, and the values formatted into it.      *)
(***************************************************************************)
LogEntry(type, what, file, sheet, detail, rows) ==
    [type |-> type, what |-> what, file |-> file, sheet |-> sheet,
     detail |-> detail, rows |-> rows]

(***************************************************************************)
(* File names, sheet identifiers and file contents.  A content is a token  *)
(* for the uploaded bytes; ExcelFile and ReadRaw say what pandas finds in  *)
(* them.                                                                   *)
(***************************************************************************)
SheetB2B == <<"B","2","B">>
SheetB2C == <<"B","2","C">>
SheetCSV == <<"C","S","V">>

ColSourceFile == <<"S","o","u","r","c","e","F","i","l","e">>
ColSheetName == <<"S","h","e","e","t","N","a","m","e">>

NameJan == <<"J","a","n",".","x","l","s","x">>
NameFeb == <<"F","e","b",".","X","L","S","X">>
NameMar == <<"M","a","r",".","x","l","s","x">>
NameBad == <<"b","a","d",".","x","l","s">>
NameApr == <<"A","p","r",".","C","s","v">>
NameDup == <<"d","u","p",".","x","l","s","x">>
NameJun == <<"J","u","n",".","x","l","s","b">>

TextH1 == <<"h","1">>
TextH2 == <<"h","2">>
TextH3 == <<"h","3">>
TextTwo == <<"2">>
TextThree == <<"3">>
TextFour == <<"4">>

GridJanB2B == << <<TextH1, TextH2>>, <<TextOne, TextTwo>> >>
GridFebB2B == << <<TextH1, TextH3>>, <<TextThree, TextFour>>, <<NaN, NaN>>, <<TextOne, NaN>> >>
GridMarker == << <<TextTitle, NaN>>, <<TextGstinMixed, TextH2>>, <<TextThree, NaN>>, <<TextFour, TextOne>> >>
GridTwoRow ==
    << <<TextTitle, NaN>>, <<NaN, NaN>>, <<NaN, NaN>>, <<NaN, NaN>>,
       <<TextInvoice, NaN>>, <<TextH1, TextH2>>, <<TextOne, TextTwo>> >>
GridHeaderOnly == << <<TextH1, TextH2>> >>
GridTagged == << <<ColSourceFile, TextH1>>, <<TextOne, TextTwo>> >>
GridRepeats ==
    << <<<<" ","A">>, TextA, <<"A","_","1">>, <<"A","_","1","_","1">>>>,
       <<TextOne, TextTwo, TextThree, TextFour>> >>
GridCsv == << <<TextH1, NaN, TextH1>>, <<TextOne, TextTwo, TextThree>> >>

\* what the bytes hold: a workbook (its sheet names in order, and the raw
\* grid of each sheet or Unreadable), a delimited text, or neither
Unreadable == <<"<unreadable>">>

Workbook(names, grids) == [format |-> "excel", sheet_names |-> names, grids |-> grids]

Parsed(content) ==
    CASE content = "jan" -> Workbook(<<SheetB2B, SheetB2C>>, <<GridJanB2B, GridMarker>>)
      [] content = "feb" -> Workbook(<<SheetB2B>>, <<GridFebB2B>>)
      [] content = "mar" -> Workbook(<<SheetB2C, SheetB2B>>, <<GridTwoRow, GridHeaderOnly>>)
      [] content = "may" -> Workbook(<<SheetB2B, SheetB2C, SheetCSV>>, <<Unreadable, GridTagged, <<>>>>)
      [] content = "dup" -> Workbook(<<SheetB2B, SheetB2C>>, <<GridRepeats, GridJanB2B>>)
      [] content = "jun" -> Workbook(<<SheetB2B, SheetB2C>>, <<Unreadable, GridHeaderOnly>>)
      [] content = "apr" -> [format |-> "text", sheet_names |-> <<>>, grids |-> <<GridCsv>>]
      [] OTHER -> [format |-> "garbage", sheet_names |-> <<>>, grids |-> <<>>]

FileData(name, content) == [name |-> name, content |-> content]

FileCatalog ==
    { FileData(NameJan, "jan"), FileData(NameFeb, "feb"), FileData(NameMar, "mar"),
      FileData(NameBad, "bad"), FileData(NameApr, "apr"), FileData(NameDup, "dup"),
      FileData(<<"M","a","y",".","x","l","s","m">>, "may"), FileData(NameJun, "jun") }

SheetIds == {SheetB2B, SheetB2C, SheetCSV}

\* os.path.splitext(file_name)[1].lower(): from the last dot on, unless
\* that dot starts the name
RECURSIVE LastDot(_, _)
LastDot(name, k) ==
    IF k = 0 THEN 0 ELSE IF name[k] = "." THEN k ELSE LastDot(name, k - 1)

RECURSIVE LeadingDots(_)
LeadingDots(name) ==
    IF name # <<>> /\ Head(name) = "." THEN 1 + LeadingDots(Tail(name)) ELSE 0

Ext(name) ==
    LET d == LastDot(name, Len(name)) IN
    IF d = 0 \/ d <= LeadingDots(name) THEN <<>>
    ELSE Lower(SubSeq(name, d, Len(name)))

CSV_EXTENSIONS == {<<".","c","s","v">>}

\* pd.read_csv / pd.read_excel with header=None, dtype=str: the raw grid in
\* <<grid>>, or <<>> when the read raises
ReadRaw(content, sheet_name, file_name) ==
    LET p == Parsed(content) IN
    IF Ext(file_name) \in CSV_EXTENSIONS
    THEN IF p.format = "text" THEN <<p.grids[1]>> ELSE <<>>
    ELSE IF p.format = "excel" /\ \E k \in DOMAIN p.sheet_names : p.sheet_names[k] = sheet_name
         THEN LET g == p.grids[CHOOSE k \in DOMAIN p.sheet_names : p.sheet_names[k] = sheet_name]
              IN IF g = Unreadable THEN <<>> ELSE <<g>>
         ELSE <<>>

(***************************************************************************)
(* The header pandas infers when the file is read again without            *)
(* header=None: row 0 names the columns, an empty cell is "Unnamed: i",    *)
(* and a repeated name gets ".1", ".2", ... (named columns first).         *)
(***************************************************************************)
UnnamedColumn(i) == <<"U","n","n","a","m","e","d",":"," ">> \o IntToStr(i)

Count(counts, name) == IF name \in DOMAIN counts THEN counts[name] ELSE 0

SetCount(counts, name, n) ==
    [x \in DOMAIN counts \cup {name} |-> IF x = name THEN n ELSE counts[x]]

InList(x, list) == \E k \in DOMAIN list : list[k] = x

\* while cur_count > 0: ... ; yields the free name and the counters
RECURSIVE MangleLoop(_, _, _, _, _)
MangleLoop(this_columns, old_col, name, cur_count, counts) ==
    IF cur_count <= 0 THEN [col |-> name, cur_count |-> cur_count, counts |-> counts]
    ELSE LET counts1 == SetCount(counts, old_col, cur_count + 1)
             cand == old_col \o <<".">> \o IntToStr(cur_count)
         IN IF InList(cand, this_columns)
            THEN MangleLoop(this_columns, old_col, cand, cur_count + 1, counts1)
            ELSE MangleLoop(this_columns, old_col, cand, Count(counts1, cand), counts1)

RECURSIVE DedupLoop(_, _, _, _)
DedupLoop(this_columns, order, k, counts) ==
    IF k > Len(order) THEN this_columns
    ELSE LET i == order[k]
             m == MangleLoop(this_columns, this_columns[i], this_columns[i],
                             Count(counts, this_columns[i]), counts)
         IN DedupLoop([this_columns EXCEPT ![i] = m.col], order, k + 1,
                      SetCount(m.counts, m.col, m.cur_count + 1))

InferredHeader(row0) ==
    LET this_columns == [j \in DOMAIN row0 |-> IF row0[j] = NaN THEN UnnamedColumn(j - 1) ELSE row0[j]]
        named == {j \in DOMAIN row0 : row0[j] # NaN}
        positions == [j \in DOMAIN row0 |-> j]
        order == SelectPositions(positions, named, 1)
                   \o SelectPositions(positions, DOMAIN row0 \ named, 1)
    IN DedupLoop(this_columns, order, 1, <<>>)

\* the DataFrame of the second read
ReadWithHeader(grid) ==
    IF grid = <<>> THEN EmptyFrame
    ELSE DataFrame(InferredHeader(grid[1]), IlocFrom(grid, 1))

(***************************************************************************)
(* read_file_with_header(file_content, sheet_name, file_name): the result  *)
(* is the table and the log entries added on the way, or raised = TRUE.    *)
(***************************************************************************)
Loaded(df, logs) == [raised |-> FALSE, df |-> df, logs |-> logs]
Raised == [raised |-> TRUE, df |-> EmptyFrame, logs |-> <<>>]

\* the entries a detector adds when the body of its try raises (lines
\* 263-265 and 279-280)
DetectorWarning(what) == LogEntry("warning", what, <<>>, <<>>, "Exception", 0)

\* lines 303-334 trying the marker row before the two-row header
DetectHeaderWith_MarkerFirst(df_raw0, file_name, two_raises, find_raises) ==
    LET two == IF two_raises THEN <<>> ELSE check_two_row_header(df_raw0)
        two_logs == IF two_raises THEN <<DetectorWarning("Error in two-row header detection")>> ELSE <<>>
        found == IF find_raises THEN <<>> ELSE find_header_row(df_raw0, GstinOfSupplier)
        find_logs == IF find_raises THEN <<DetectorWarning("Error finding header row")>> ELSE <<>>
    IN IF found # <<>>
       THEN LET headers == make_unique_columns(df_raw0[found[1] + 1])
                df == DataFrame(headers, IlocFrom(df_raw0, found[1] + 1))
            IN Loaded(clean_dataframe(df),
                   find_logs \o
                   <<LogEntry("success", "Found header at row", file_name, <<>>, "", found[1] + 1)>>)
       ELSE IF two # <<>>
       THEN Loaded(two[1],
                find_logs \o two_logs \o
                <<LogEntry("success", "Detected two-row header", file_name, <<>>, "", 0)>>)
       ELSE LET df == ReadWithHeader(df_raw0)
            IN Loaded(clean_dataframe(DataFrame(make_unique_columns(df.columns), df.rows)),
                   find_logs \o two_logs \o
                   <<LogEntry("info", "Loaded with default header", file_name, <<>>, "", 0)>>)

\* lines 303-334, on the raw grid that was read; two_raises and find_raises
\* say whether the body of the try of check_two_row_header (which is only
\* entered on a grid of at least 6 rows) and of find_header_row raises: the
\* detector then adds a warning and returns None
DetectHeaderWith(df_raw0, file_name, two_raises, find_raises) ==
    LET two == IF two_raises THEN <<>> ELSE check_two_row_header(df_raw0)
        two_logs == IF two_raises THEN <<DetectorWarning("Error in two-row header detection")>> ELSE <<>>
    IN IF two # <<>>
       THEN Loaded(two[1],
                <<LogEntry("success", "Detected two-row header", file_name, <<>>, "", 0)>>)
       ELSE LET found == IF find_raises THEN <<>> ELSE find_header_row(df_raw0, GstinOfSupplier)
                find_logs == IF find_raises THEN <<DetectorWarning("Error finding header row")>> ELSE <<>>
            IN IF found # <<>>
               THEN LET headers == make_unique_columns(df_raw0[found[1] + 1])
                        df == DataFrame(headers, IlocFrom(df_raw0, found[1] + 1))
                    IN Loaded(clean_dataframe(df),
                           two_logs \o
                           <<LogEntry("success", "Found header at row", file_name, <<>>, "", found[1] + 1)>>)
               ELSE LET df == ReadWithHeader(df_raw0)
                    IN Loaded(clean_dataframe(DataFrame(make_unique_columns(df.columns), df.rows)),
                           two_logs \o find_logs \o
                           <<LogEntry("info", "Loaded with default header", file_name, <<>>, "", 0)>>)

\* lines 303-334 when no detector raises
DetectHeader(df_raw0, file_name) == DetectHeaderWith(df_raw0, file_name, FALSE, FALSE)

read_file_with_header(file_content, sheet_name, file_name) ==
    LET raw == ReadRaw(file_content, sheet_name, file_name) IN
    IF raw = <<>> THEN Raised ELSE DetectHeader(raw[1], file_name)

\* get_sheet_names(file_content, file_name): the list, and the log entries
get_sheet_names(file_content, file_name) ==
    IF Ext(file_name) \in CSV_EXTENSIONS
    THEN [sheets |-> <<SheetCSV>>, logs |-> <<>>]
    ELSE IF Parsed(file_content).format = "excel"
    THEN [sheets |-> Parsed(file_content).sheet_names, logs |-> <<>>]
    ELSE [sheets |-> <<>>,
          logs |-> <<LogEntry("error", "Error reading sheets from", file_name, <<>>, "ExcelFile", 0)>>]

(***************************************************************************)
(* The parts of the state a specification does not use stay at rest.       *)
(***************************************************************************)
NamesIdle ==
    /\ cols = <<>>
    /\ unique_cols = NoResult
    /\ col = NoResult
    /\ index = 0
    /\ clean_col = NoResult

HeaderIdle ==
    /\ df_raw = <<>>
    /\ search_text = <<>>
    /\ header_idx = <<>>
    /\ df_processed = <<>>

\* init_session_state()
SessionIdle ==
    /\ files_data = <<>>
    /\ selected_sheets = <<>>
    /\ processing_logs = <<>>
    /\ consolidated_df = <<>>
    /\ selected_columns = <<>>

UiIdle ==
    /\ page = "upload"
    /\ all_sheets = <<>>
    /\ uploaded_files = <<>>

RunIdle ==
    /\ all_dataframes = <<>>
    /\ total_operations = 0
    /\ current_operation = 0
    /\ file_pos = 0
    /\ sheet_pos = 0
    /\ available_sheets = <<>>
    /\ progress = <<>>
    /\ status_text = <<>>
    /\ loader_calls = <<>>

(***************************************************************************)
(* Specification of the name functions: an argument list is chosen, then   *)
(* sanitize_column_name is called on one of its entries and                *)
(* make_unique_columns on the whole list.                                  *)
(***************************************************************************)
InitNames ==
    /\ cols \in SeqsUpTo(RawNames, MaxCols)
    /\ unique_cols = NoResult
    /\ col = NoResult
    /\ index = 0
    /\ clean_col = NoResult
    /\ HeaderIdle
    /\ SessionIdle
    /\ UiIdle
    /\ RunIdle
    /\ pc = "names"

CallSanitize ==
    /\ pc = "names"
    /\ \E i \in 0..(Len(cols) - 1) :
          /\ col' = cols[i + 1]
          /\ index' = i
          /\ clean_col' = sanitize_column_name(cols[i + 1], i)
    /\ UNCHANGED <<cols, unique_cols, pc, headerVars, sessionVars, uiVars, runVars>>

CallMakeUnique ==
    /\ pc = "names"
    /\ unique_cols' = make_unique_columns(cols)
    /\ pc' = "unique"
    /\ UNCHANGED <<cols, col, index, clean_col, headerVars, sessionVars, uiVars, runVars>>

NextNames == CallSanitize \/ CallMakeUnique

SpecNames == InitNames /\ [][NextNames]_vars

(***************************************************************************)
(* Raw grids for the header detectors.                                     *)
(***************************************************************************)
\* all rows of width w with cells from S
Rows(w, S) == [1..w -> S]

\* n copies of v
RECURSIVE Repeat(_, _)
Repeat(v, n) == IF n = 0 THEN <<>> ELSE Append(Repeat(v, n - 1), v)

\* blocks of at most d data rows of width w: a cell is held exactly where a
\* chosen set of rows meets a chosen set of columns, so that any set of rows
\* and any set of columns can be entirely absent
RECURSIVE DataBlocks(_, _)
DataBlocks(w, d) ==
    IF d = 0 THEN {<<>>}
    ELSE DataBlocks(w, d - 1) \cup
         { [r \in 1..d |-> [j \in 1..w |-> IF r \in held_rows /\ j \in held_cols
                                            THEN TextOne ELSE NaN]] :
             held_rows \in SUBSET (1..d), held_cols \in SUBSET (1..w) }

\* grids with rows 4 and 5 as a candidate two-row header: rows 0..3 are a
\* title and blanks, then row 4, row 5 and up to MaxDataRows data rows; grids
\* with a marker in row 3 or 4; grids with the supplier marker in row 5 under
\* a row 4 that may hold a two-row marker
TwoRowGridsOfWidth(w) ==
    { <<Repeat(TextTitle, w)>> \o Repeat(Repeat(NaN, w), 3) \o <<r4, r5>> \o data :
        r4 \in Rows(w, {NaN, TextInvoice, TextA}),
        r5 \in Rows(w, {NaN, TextA}),
        data \in DataBlocks(w, MaxDataRows) }
    \cup
    { <<Repeat(TextTitle, w)>> \o Repeat(Repeat(NaN, w), top)
        \o << <<m>> \o Repeat(NaN, w - 1), Repeat(TextA, w), Repeat(TextOne, w) >> :
        top \in 2..3, m \in {TextTax, TextInvoice, TextGstin} }
    \cup
    { <<Repeat(TextTitle, w)>> \o Repeat(Repeat(NaN, w), 3)
        \o << Repeat(m, w), Repeat(TextGstin, w), Repeat(TextOne, w) >> :
        m \in {TextInvoice, TextTax, TextA} }

RECURSIVE TwoRowGridsUpToWidth(_)
TwoRowGridsUpToWidth(w) ==
    IF w = 0 THEN {} ELSE TwoRowGridsUpToWidth(w - 1) \cup TwoRowGridsOfWidth(w)

TwoRowGrids == TwoRowGridsUpToWidth(MaxGridCols)

\* one-column grids of n rows, blank except for at most two rows
MarkerGrids ==
    { [r \in 1..n |-> <<IF r = p1 THEN c1 ELSE IF r = p2 THEN c2 ELSE NaN>>] :
        n \in 0..MaxGridRows, p1 \in 1..MaxGridRows, p2 \in 1..MaxGridRows,
        c1 \in {TextGstin, TextGstinMixed, TextA}, c2 \in {TextGstin, NaN} }

Grids == TwoRowGrids \cup MarkerGrids

(***************************************************************************)
(* Specification of the header detectors: a raw grid is chosen, then one   *)
(* of the detectors is called on it.                                       *)
(***************************************************************************)
InitHeader ==
    /\ NamesIdle
    /\ df_raw \in Grids
    /\ search_text = <<>>
    /\ header_idx = <<>>
    /\ df_processed = <<>>
    /\ SessionIdle
    /\ UiIdle
    /\ RunIdle
    /\ pc = "grid"

CallCheckTwoRowHeader ==
    /\ pc = "grid"
    /\ df_processed' = check_two_row_header(df_raw)
    /\ pc' = "two_row"
    /\ UNCHANGED <<nameVars, df_raw, search_text, header_idx, sessionVars, uiVars, runVars>>

CallFindHeaderRow ==
    /\ pc = "grid"
    /\ \E text \in {GstinOfSupplier, TextNan} :
          /\ search_text' = text
          /\ header_idx' = find_header_row(df_raw, text)
    /\ pc' = "marker"
    /\ UNCHANGED <<nameVars, df_raw, df_processed, sessionVars, uiVars, runVars>>

NextHeader == CallCheckTwoRowHeader \/ CallFindHeaderRow

SpecHeader == InitHeader /\ [][NextHeader]_vars

(***************************************************************************)
(* Specification of the header strategies as read_file_with_header applies *)
(* them: a raw grid is chosen (a two-row candidate, or a one-column grid   *)
(* of at most MaxReadRows rows), then lines 303-334 run on it.             *)
(***************************************************************************)
MaxReadRows == 7

InitRead ==
    /\ NamesIdle
    /\ df_raw \in TwoRowGrids \cup {g \in MarkerGrids : Len(g) <= MaxReadRows}
    /\ search_text = <<>>
    /\ header_idx = <<>>
    /\ df_processed = <<>>
    /\ SessionIdle
    /\ UiIdle
    /\ RunIdle
    /\ pc = "grid"

\* read_file_with_header from line 303 on, for a sheet of Jan.xlsx whose raw
\* grid is df_raw: the table is returned and the entries are logged
CallReadFileWithHeader ==
    /\ pc = "grid"
    /\ \E two_raises \in {FALSE, Len(df_raw) >= 6}, find_raises \in BOOLEAN :
          \E got \in {DetectHeaderWith(df_raw, NameJan, two_raises, find_raises)} :
             /\ df_processed' = IF got.raised THEN <<>> ELSE <<got.df>>
             /\ processing_logs' = processing_logs \o got.logs
    /\ pc' = "read"
    /\ UNCHANGED <<nameVars, df_raw, search_text, header_idx, files_data, selected_sheets,
                   consolidated_df, selected_columns, uiVars, runVars>>

SpecRead == InitRead /\ [][CallReadFileWithHeader]_vars

(***************************************************************************)
(* consolidate_data: tagging and concatenation.                            *)
(***************************************************************************)
\* df.insert(0, 'SourceFile', file_name); df.insert(1, 'SheetName', sheet_name):
\* <<tagged frame>>, or <<>> when insert raises because the label exists
TagFrame(df, file_name, sheet_name) ==
    IF InList(ColSourceFile, df.columns) \/ InList(ColSheetName, df.columns)
    THEN <<>>
    ELSE <<DataFrame(<<ColSourceFile, ColSheetName>> \o df.columns,
                     [r \in DOMAIN df.rows |-> <<file_name, sheet_name>> \o df.rows[r]])>>

\* Index.is_unique
IsUnique(labels) == \A i, j \in DOMAIN labels : labels[i] = labels[j] => i = j

\* the labels of all frames in order of first appearance
RECURSIVE AppendNew(_, _)
AppendNew(acc, labels) ==
    IF labels = <<>> THEN acc
    ELSE AppendNew(IF InList(Head(labels), acc) THEN acc ELSE Append(acc, Head(labels)),
                   Tail(labels))

RECURSIVE UnionLabels(_, _)
UnionLabels(frames, acc) ==
    IF frames = <<>> THEN acc
    ELSE UnionLabels(Tail(frames), AppendNew(acc, Head(frames).columns))

\* the rows of df under the labels, NaN where df has no such column
Reindexed(df, labels) ==
    [r \in DOMAIN df.rows |->
        [k \in DOMAIN labels |->
            IF InList(labels[k], df.columns)
            THEN df.rows[r][CHOOSE j \in DOMAIN df.columns : df.columns[j] = labels[k]]
            ELSE NaN]]

RECURSIVE StackRows(_, _)
StackRows(frames, labels) ==
    IF frames = <<>> THEN <<>>
    ELSE Reindexed(Head(frames), labels) \o StackRows(Tail(frames), labels)

RECURSIVE AllRows(_)
AllRows(frames) ==
    IF frames = <<>> THEN <<>> ELSE Head(frames).rows \o AllRows(Tail(frames))

\* pd.concat(all_dataframes, ignore_index=True, sort=False).fillna('-'):
\* frames with one and the same column index are stacked as they are; else
\* every frame is reindexed to the union of the labels, which pandas
\* refuses (InvalidIndexError) for a frame whose labels repeat
Concat(frames) ==
    IF \A k \in DOMAIN frames : frames[k].columns = frames[1].columns
    THEN [raised |-> FALSE,
          df |-> DataFrame(frames[1].columns, FillNa(AllRows(frames), Sentinel))]
    ELSE IF \E k \in DOMAIN frames : ~IsUnique(frames[k].columns)
    THEN [raised |-> TRUE, df |-> EmptyFrame]
    ELSE LET labels == UnionLabels(frames, <<>>)
         IN [raised |-> FALSE,
             df |-> DataFrame(labels, FillNa(StackRows(frames, labels), Sentinel))]

(***************************************************************************)
(* Checkbox grids.  Both pages loop over the options in display order and  *)
(* bring the selection list in line with each checkbox: a checked option   *)
(* missing from the list is appended, an unchecked option in the list is   *)
(* removed.  `checked` holds the positions whose checkbox reads True.  A   *)
(* checkbox drawn for the first time reads its value= argument; one that   *)
(* was on screen in the previous script run reads what the user left in    *)
(* it, which can be any value.                                             *)
(***************************************************************************)
\* list.remove(x): without the first occurrence of x
RECURSIVE RemoveFirst(_, _)
RemoveFirst(list, x) ==
    IF list = <<>> THEN <<>>
    ELSE IF Head(list) = x THEN Tail(list)
    ELSE <<Head(list)>> \o RemoveFirst(Tail(list), x)

\* lines 916-947 and 750-765 from option i on; the locked options are drawn
\* disabled with value=True
RECURSIVE SyncLoop(_, _, _, _, _)
SyncLoop(list, options, i, checked, locked) ==
    IF i > Len(options) THEN list
    ELSE LET is_selected == options[i] \in locked \/ i \in checked IN
         IF is_selected /\ ~InList(options[i], list)
         THEN SyncLoop(Append(list, options[i]), options, i + 1, checked, locked)
         ELSE IF ~is_selected /\ InList(options[i], list) /\ options[i] \notin locked
         THEN SyncLoop(RemoveFirst(list, options[i]), options, i + 1, checked, locked)
         ELSE SyncLoop(list, options, i + 1, checked, locked)

\* what the checkboxes that are not locked can read: their value= argument
\* when fresh
CheckedSets(list, options, fresh, locked) ==
    IF fresh THEN {{i \in DOMAIN options : InList(options[i], list)}}
    ELSE SUBSET {i \in DOMAIN options : options[i] \notin locked}

\* the column grid with the SourceFile and SheetName checkboxes drawn like
\* the others
ColumnSelections_TagsUnlocked(list, columns, fresh) ==
    {SyncLoop(list, columns, 1, checked, {}) : checked \in CheckedSets(list, columns, fresh, {})}

\* lines 910-947: the selections the column grid can leave
ColumnSelections(list, columns, fresh) ==
    {SyncLoop(list, columns, 1, checked, {ColSourceFile, ColSheetName}) :
        checked \in CheckedSets(list, columns, fresh, {ColSourceFile, ColSheetName})}

\* lines 750-765: the selections the sheet grid can leave
SheetSelections(list, options, fresh) ==
    {SyncLoop(list, options, 1, checked, {}) : checked \in CheckedSets(list, options, fresh, {})}

\* the sheet grid and the column grid were drawn by the last script run
SheetsShown == page = "sheets" /\ files_data # <<>> /\ all_sheets # <<>>

ColumnsShown ==
    /\ page = "consolidate"
    /\ files_data # <<>>
    /\ selected_sheets # <<>>
    /\ consolidated_df # <<>>

(***************************************************************************)
(* Specification of one consolidation run: the Start Consolidation handler *)
(* of page_consolidate with consolidate_data stepped pair by pair.         *)
(***************************************************************************)
DistinctSeqsUpTo(S, n) == {q \in SeqsUpTo(S, n) : IsUnique(q)}

InitConsolidate ==
    /\ NamesIdle
    /\ HeaderIdle
    /\ files_data \in SeqsUpTo(FileCatalog, MaxFiles)
    /\ selected_sheets \in DistinctSeqsUpTo(SheetIds, MaxSelected)
    /\ processing_logs = <<>>
    /\ consolidated_df = <<>>
    /\ selected_columns = <<>>
    /\ page = "consolidate"
    /\ all_sheets = <<>>
    /\ uploaded_files = <<>>
    /\ RunIdle
    /\ pc = "idle"

\* lines 823-824 and 362-367: clear_logs(), the locals
BeginRun ==
    /\ processing_logs' = <<>>
    /\ all_dataframes' = <<>>
    /\ total_operations' = Len(files_data) * Len(selected_sheets)
    /\ current_operation' = 0
    /\ progress' = << <<0, 1>> >>
    /\ file_pos' = 0
    /\ sheet_pos' = 0
    /\ available_sheets' = <<>>
    /\ status_text' = <<>>
    /\ loader_calls' = <<>>
    /\ pc' = "files"
    /\ UNCHANGED <<nameVars, headerVars, uiVars, files_data, selected_sheets, consolidated_df,
                   selected_columns>>

\* the Start Consolidation button pressed on a session in which no script runs
StartConsolidation == pc = "idle" /\ BeginRun

CurrentFile == files_data[file_pos + 1]
CurrentSheet == selected_sheets[sheet_pos + 1]

\* lines 369-377: the next file, its sheet list, then the inner loop
EnterFile ==
    /\ pc = "files"
    /\ file_pos < Len(files_data)
    /\ LET got == get_sheet_names(CurrentFile.content, CurrentFile.name) IN
          /\ available_sheets' = got.sheets
          /\ processing_logs' = processing_logs \o got.logs
    /\ sheet_pos' = 0
    /\ IF selected_sheets = <<>>
       THEN file_pos' = file_pos + 1 /\ pc' = "files"
       ELSE file_pos' = file_pos /\ pc' = "sheets"
    /\ UNCHANGED <<nameVars, headerVars, uiVars, files_data, selected_sheets, consolidated_df,
                   selected_columns, all_dataframes, total_operations, current_operation,
                   progress, status_text, loader_calls>>

\* the loop step reporting the count before it is incremented
PairBookkeeping_ProgressBeforeIncrement ==
    /\ pc = "sheets"
    /\ current_operation' = current_operation + 1
    /\ progress' = Append(progress, <<current_operation, total_operations>>)
    /\ status_text' = Append(status_text, <<file_pos, sheet_pos>>)
    /\ IF sheet_pos + 1 < Len(selected_sheets)
       THEN sheet_pos' = sheet_pos + 1 /\ file_pos' = file_pos /\ pc' = "sheets"
       ELSE sheet_pos' = 0 /\ file_pos' = file_pos + 1 /\ pc' = "files"
    /\ UNCHANGED <<nameVars, headerVars, uiVars, files_data, selected_sheets, consolidated_df,
                   selected_columns, total_operations, available_sheets>>

\* lines 378-381 and the loop control after the pair
PairBookkeeping ==
    /\ pc = "sheets"
    /\ current_operation' = current_operation + 1
    /\ progress' = Append(progress, <<current_operation + 1, total_operations>>)
    /\ status_text' = Append(status_text, <<file_pos, sheet_pos>>)
    /\ IF sheet_pos + 1 < Len(selected_sheets)
       THEN sheet_pos' = sheet_pos + 1 /\ file_pos' = file_pos /\ pc' = "sheets"
       ELSE sheet_pos' = 0 /\ file_pos' = file_pos + 1 /\ pc' = "files"
    /\ UNCHANGED <<nameVars, headerVars, uiVars, files_data, selected_sheets, consolidated_df,
                   selected_columns, total_operations, available_sheets>>

\* the warning without the `continue`: the loader is still called and fails
SkipMissingSheet_NoContinue ==
    /\ PairBookkeeping
    /\ ~InList(CurrentSheet, available_sheets)
    /\ processing_logs' = processing_logs \o
           <<LogEntry("warning", "Sheet not found in", CurrentFile.name, CurrentSheet, "", 0),
             LogEntry("error", "Error loading", CurrentFile.name, CurrentSheet,
                      "Error reading", 0)>>
    /\ loader_calls' = Append(loader_calls, <<file_pos, sheet_pos>>)
    /\ UNCHANGED all_dataframes

\* lines 384-386: the sheet is not in this file
SkipMissingSheet ==
    /\ PairBookkeeping
    /\ ~InList(CurrentSheet, available_sheets)
    /\ processing_logs' = Append(processing_logs,
           LogEntry("warning", "Sheet not found in", CurrentFile.name, CurrentSheet, "", 0))
    /\ UNCHANGED <<all_dataframes, loader_calls>>

\* read_file_with_header on every file of the catalog and every sheet identifier
LoadTable ==
    [f \in FileCatalog, sh \in SheetIds |-> read_file_with_header(f.content, sh, f.name)]

\* line 390: df = read_file_with_header(file_content, sheet_name, file_name)
LoadCurrent == LoadTable[CurrentFile, CurrentSheet]

\* df.empty never true (the emptiness test of line 392 dropped)
IsEmptyFrame_Never(df) == FALSE

\* df.empty
IsEmptyFrame(df) == ~(df.rows # <<>> /\ df.columns # <<>>)

\* the loaded table put in front of the accumulator instead of at its end
LoadAndAccumulate_Prepend ==
    /\ PairBookkeeping
    /\ InList(CurrentSheet, available_sheets)
    /\ LET got == LoadCurrent IN
          /\ ~got.raised
          /\ ~IsEmptyFrame(got.df)
          /\ LET tagged == TagFrame(got.df, CurrentFile.name, CurrentSheet) IN
                /\ tagged # <<>>
                /\ all_dataframes' = <<tagged[1]>> \o all_dataframes
                /\ processing_logs' = processing_logs \o got.logs \o
                       <<LogEntry("success", "Loaded", CurrentFile.name, CurrentSheet, "",
                                  Len(tagged[1].rows))>>
    /\ loader_calls' = Append(loader_calls, <<file_pos, sheet_pos>>)

\* lines 390-398: loaded, not empty, tagged and accumulated
LoadAndAccumulate ==
    /\ PairBookkeeping
    /\ InList(CurrentSheet, available_sheets)
    /\ LET got == LoadCurrent IN
          /\ ~got.raised
          /\ ~IsEmptyFrame(got.df)
          /\ LET tagged == TagFrame(got.df, CurrentFile.name, CurrentSheet) IN
                /\ tagged # <<>>
                /\ all_dataframes' = Append(all_dataframes, tagged[1])
                /\ processing_logs' = processing_logs \o got.logs \o
                       <<LogEntry("success", "Loaded", CurrentFile.name, CurrentSheet, "",
                                  Len(tagged[1].rows))>>
    /\ loader_calls' = Append(loader_calls, <<file_pos, sheet_pos>>)

\* lines 399-400: loaded, but the table is empty
LoadEmpty ==
    /\ PairBookkeeping
    /\ InList(CurrentSheet, available_sheets)
    /\ LET got == LoadCurrent IN
          /\ ~got.raised
          /\ IsEmptyFrame(got.df)
          /\ processing_logs' = processing_logs \o got.logs \o
                 <<LogEntry("warning", "No data in", CurrentFile.name, CurrentSheet, "", 0)>>
    /\ loader_calls' = Append(loader_calls, <<file_pos, sheet_pos>>)
    /\ UNCHANGED all_dataframes

\* lines 402-404: the read or the tagging raised
LoadFailed ==
    /\ PairBookkeeping
    /\ InList(CurrentSheet, available_sheets)
    /\ LET got == LoadCurrent IN
          \/ /\ got.raised
             /\ processing_logs' = Append(processing_logs,
                    LogEntry("error", "Error loading", CurrentFile.name, CurrentSheet,
                             "Error reading", 0))
          \/ /\ ~got.raised
             /\ ~IsEmptyFrame(got.df)
             /\ TagFrame(got.df, CurrentFile.name, CurrentSheet) = <<>>
             /\ processing_logs' = Append(processing_logs \o got.logs,
                    LogEntry("error", "Error loading", CurrentFile.name, CurrentSheet,
                             "cannot insert, already exists", 0))
    /\ loader_calls' = Append(loader_calls, <<file_pos, sheet_pos>>)
    /\ UNCHANGED all_dataframes

\* lines 409-410, 840-842 and the rest of the page: nothing accumulated
FinishNoData ==
    /\ pc = "files"
    /\ file_pos = Len(files_data)
    /\ all_dataframes = <<>>
    /\ processing_logs' = Append(processing_logs,
           LogEntry("error", "Consolidation error", <<>>, <<>>, "No data could be loaded", 0))
    /\ selected_columns' \in
           IF ColumnsShown
           THEN ColumnSelections(selected_columns, consolidated_df[1].columns, FALSE)
           ELSE {selected_columns}
    /\ pc' = "no_data"
    /\ UNCHANGED <<nameVars, headerVars, uiVars, files_data, selected_sheets, consolidated_df,
                   runVars>>

\* lines 413-420, 833-835 and the rest of the page: the union table is
\* returned and stored, the selection reset, the column grid drawn
FinishConcat ==
    /\ pc = "files"
    /\ file_pos = Len(files_data)
    /\ all_dataframes # <<>>
    /\ LET got == Concat(all_dataframes) IN
          /\ ~got.raised
          /\ consolidated_df' = <<got.df>>
          /\ processing_logs' = Append(processing_logs,
                 LogEntry("success", "Consolidation complete", <<>>, <<>>, "", Len(got.df.rows)))
          /\ selected_columns' \in
                 ColumnSelections(<<ColSourceFile, ColSheetName>>, got.df.columns, ~ColumnsShown)
    /\ pc' = "returned"
    /\ UNCHANGED <<nameVars, headerVars, uiVars, files_data, selected_sheets, runVars>>

\* line 413 raising, 840-842 and the rest of the page
FinishConcatRaises ==
    /\ pc = "files"
    /\ file_pos = Len(files_data)
    /\ all_dataframes # <<>>
    /\ Concat(all_dataframes).raised
    /\ processing_logs' = Append(processing_logs,
           LogEntry("error", "Consolidation error", <<>>, <<>>, "InvalidIndexError", 0))
    /\ selected_columns' \in
           IF ColumnsShown
           THEN ColumnSelections(selected_columns, consolidated_df[1].columns, FALSE)
           ELSE {selected_columns}
    /\ pc' = "failed"
    /\ UNCHANGED <<nameVars, headerVars, uiVars, files_data, selected_sheets, consolidated_df,
                   runVars>>

NextConsolidate ==
    \/ StartConsolidation
    \/ EnterFile
    \/ SkipMissingSheet
    \/ LoadAndAccumulate
    \/ LoadEmpty
    \/ LoadFailed
    \/ FinishNoData
    \/ FinishConcat
    \/ FinishConcatRaises

SpecConsolidate == InitConsolidate /\ [][NextConsolidate]_vars

(***************************************************************************)
(* Specification of a session: every action is one user event followed by  *)
(* the whole script run it triggers (main(): the sidebar, then the page    *)
(* of st.session_state.page, st.rerun() included).  A consolidation run is *)
(* stepped pair by pair with the actions above.  file_sheet_mapping is     *)
(* only displayed and is left out.                                         *)
(***************************************************************************)
MaxSheetErrors == 1

\* the files the user has at hand in a session
SessionCatalog ==
    { FileData(NameDup, "dup"), FileData(NameBad, "bad"), FileData(NameJun, "jun") }

\* the file lists the user puts in the uploader: nothing, or one file
SessionUploads == {<<>>} \cup {<<f>> : f \in SessionCatalog}

\* sorted(): texts in ascending order of their characters' code points
RECURSIVE TextLess(_, _)
TextLess(a, b) ==
    LET CharOrder == DecimalDigits \o UpperLetters \o LowerLetters
        CharRank(c) == CHOOSE k \in DOMAIN CharOrder : CharOrder[k] = c
    IN IF b = <<>> THEN FALSE
       ELSE IF a = <<>> THEN TRUE
       ELSE IF Head(a) = Head(b) THEN TextLess(Tail(a), Tail(b))
       ELSE CharRank(Head(a)) < CharRank(Head(b))

RECURSIVE SortedTexts(_)
SortedTexts(S) ==
    IF S = {} THEN <<>>
    ELSE LET least == CHOOSE x \in S : \A y \in S \ {x} : TextLess(x, y)
         IN <<least>> \o SortedTexts(S \ {least})

\* lines 660-669: the sheet names of all files, and the entries logged
SheetNamesOf(files) ==
    SortedTexts({sh \in SheetIds :
        \E k \in DOMAIN files : InList(sh, get_sheet_names(files[k].content, files[k].name).sheets)})

RECURSIVE SheetNameLogs(_)
SheetNameLogs(files) ==
    IF files = <<>> THEN <<>>
    ELSE get_sheet_names(Head(files).content, Head(files).name).logs \o SheetNameLogs(Tail(files))

InitSession ==
    /\ NamesIdle
    /\ HeaderIdle
    /\ SessionIdle
    /\ UiIdle
    /\ RunIdle
    /\ pc = "idle"

\* no script is running: the session waits for the user
NoScriptRuns == pc \in {"idle", "returned", "no_data", "failed"}

\* main() run to its end on page p, from the session values the handler
\* left: up is what the uploader holds, the locals of an earlier
\* consolidate_data call are gone
RunScript(p, up, files, sheet_list, sheets, cdf, columns) ==
    /\ page' = p
    /\ uploaded_files' = IF p = "upload" THEN up ELSE <<>>
    /\ files_data' = IF p = "upload" /\ up # <<>> THEN up ELSE files
    /\ all_sheets' = sheet_list
    /\ selected_sheets' \in
           IF p = "sheets" /\ files # <<>> /\ sheet_list # <<>>
           THEN SheetSelections(sheets, sheet_list, ~SheetsShown)
           ELSE {sheets}
    /\ consolidated_df' = cdf
    /\ selected_columns' \in
           IF p = "consolidate" /\ files # <<>> /\ sheets # <<>> /\ cdf # <<>>
           THEN ColumnSelections(columns, cdf[1].columns, ~ColumnsShown)
           ELSE {columns}
    /\ all_dataframes' = <<>>
    /\ total_operations' = 0
    /\ current_operation' = 0
    /\ file_pos' = 0
    /\ sheet_pos' = 0
    /\ available_sheets' = <<>>
    /\ progress' = <<>>
    /\ status_text' = <<>>
    /\ loader_calls' = <<>>
    /\ pc' = "idle"
    /\ UNCHANGED <<nameVars, headerVars>>

\* the uploader keeps its files only while the upload page stays on screen
UploaderNow == IF page = "upload" THEN uploaded_files ELSE <<>>

\* lines 482-485: a navigation button of the sidebar
NavigateTo ==
    /\ NoScriptRuns
    /\ \E target \in {"upload", "sheets", "consolidate"} :
          RunScript(target, UploaderNow, files_data, all_sheets, selected_sheets,
                    consolidated_df, selected_columns)
    /\ UNCHANGED processing_logs

\* lines 542-546 and 579-583: Reset All
ResetAll ==
    /\ NoScriptRuns
    /\ RunScript("upload", UploaderNow, <<>>, <<>>, <<>>, <<>>, <<>>)
    /\ processing_logs' = <<>>

\* lines 605-623: the user changes the files in the uploader
ChangeUploadedFiles ==
    /\ NoScriptRuns
    /\ page = "upload"
    /\ \E up \in SessionUploads :
          /\ up # uploaded_files
          /\ RunScript("upload", up, files_data, all_sheets, selected_sheets,
                       consolidated_df, selected_columns)
    /\ UNCHANGED processing_logs

\* lines 646-648: the delete button of a listed file
DeleteFile ==
    /\ NoScriptRuns
    /\ page = "upload"
    /\ uploaded_files # <<>>
    /\ \E idx \in 0..(Len(uploaded_files) - 1) :
          RunScript("upload", uploaded_files,
                    SelectPositions(uploaded_files, DOMAIN uploaded_files \ {idx + 1}, 1),
                    all_sheets, selected_sheets, consolidated_df, selected_columns)
    /\ UNCHANGED processing_logs

\* lines 656-677: Extract Sheet Names
ExtractSheetNames ==
    /\ NoScriptRuns
    /\ page = "upload"
    /\ uploaded_files # <<>>
    /\ Cardinality({k \in DOMAIN processing_logs :
                       processing_logs[k].what = "Error reading sheets from"}) < MaxSheetErrors
    /\ RunScript("upload", uploaded_files, uploaded_files, SheetNamesOf(uploaded_files), <<>>,
                 consolidated_df, selected_columns)
    /\ processing_logs' = processing_logs \o SheetNameLogs(uploaded_files)

\* lines 680-683: Next: Select Sheets
NextSelectSheets ==
    /\ NoScriptRuns
    /\ page = "upload"
    /\ uploaded_files # <<>>
    /\ all_sheets # <<>>
    /\ RunScript("sheets", <<>>, uploaded_files, all_sheets, selected_sheets,
                 consolidated_df, selected_columns)
    /\ UNCHANGED processing_logs

\* lines 694-706 and 775-777: Go to Upload, Back to Upload
BackToUpload ==
    /\ NoScriptRuns
    /\ page = "sheets"
    /\ RunScript("upload", <<>>, files_data, all_sheets, selected_sheets,
                 consolidated_df, selected_columns)
    /\ UNCHANGED processing_logs

\* lines 724-726: Select All
SelectAllSheets ==
    /\ NoScriptRuns
    /\ SheetsShown
    /\ RunScript("sheets", <<>>, files_data, all_sheets, all_sheets,
                 consolidated_df, selected_columns)
    /\ UNCHANGED processing_logs

\* lines 729-736: Deselect All, Reset Selection
DeselectAllSheets ==
    /\ NoScriptRuns
    /\ SheetsShown
    /\ RunScript("sheets", <<>>, files_data, all_sheets, <<>>,
                 consolidated_df, selected_columns)
    /\ UNCHANGED processing_logs

\* lines 756-765: a sheet checkbox is clicked
ToggleSheet ==
    /\ NoScriptRuns
    /\ SheetsShown
    /\ RunScript("sheets", <<>>, files_data, all_sheets, selected_sheets,
                 consolidated_df, selected_columns)
    /\ UNCHANGED processing_logs

\* lines 780-784: Next: Consolidate
NextConsolidatePage ==
    /\ NoScriptRuns
    /\ SheetsShown
    /\ selected_sheets # <<>>
    /\ RunScript("consolidate", <<>>, files_data, all_sheets, selected_sheets,
                 consolidated_df, selected_columns)
    /\ UNCHANGED processing_logs

\* lines 795-806: the page asks for files or sheets first
ConsolidateGoBack ==
    /\ NoScriptRuns
    /\ page = "consolidate"
    /\ files_data = <<>> \/ selected_sheets = <<>>
    /\ RunScript(IF files_data = <<>> THEN "upload" ELSE "sheets", <<>>, files_data,
                 all_sheets, selected_sheets, consolidated_df, selected_columns)
    /\ UNCHANGED processing_logs

\* Start Consolidation drawn above the two guards of lines 795-806
ClickStartConsolidation_AboveGuards ==
    /\ NoScriptRuns
    /\ page = "consolidate"
    /\ BeginRun

\* lines 795-824: Start Consolidation is drawn below the two guards
ClickStartConsolidation ==
    /\ NoScriptRuns
    /\ page = "consolidate"
    /\ files_data # <<>>
    /\ selected_sheets # <<>>
    /\ BeginRun

\* lines 892-894: Select All Columns
SelectAllColumns ==
    /\ NoScriptRuns
    /\ ColumnsShown
    /\ RunScript("consolidate", <<>>, files_data, all_sheets, selected_sheets,
                 consolidated_df, consolidated_df[1].columns)
    /\ UNCHANGED processing_logs

\* lines 897-905: Deselect All, Reset to Default
DeselectAllColumns ==
    /\ NoScriptRuns
    /\ ColumnsShown
    /\ RunScript("consolidate", <<>>, files_data, all_sheets, selected_sheets,
                 consolidated_df, <<ColSourceFile, ColSheetName>>)
    /\ UNCHANGED processing_logs

\* lines 925-947: a column checkbox is clicked
ToggleColumn ==
    /\ NoScriptRuns
    /\ ColumnsShown
    /\ RunScript("consolidate", <<>>, files_data, all_sheets, selected_sheets,
                 consolidated_df, selected_columns)
    /\ UNCHANGED processing_logs

\* lines 1047-1049: Back to Sheets
BackToSheets ==
    /\ NoScriptRuns
    /\ ColumnsShown
    /\ RunScript("sheets", <<>>, files_data, all_sheets, selected_sheets,
                 consolidated_df, selected_columns)
    /\ UNCHANGED processing_logs

\* lines 1052-1056: Process Again
ProcessAgain ==
    /\ NoScriptRuns
    /\ ColumnsShown
    /\ RunScript("consolidate", <<>>, files_data, all_sheets, selected_sheets, <<>>, <<>>)
    /\ processing_logs' = <<>>

\* lines 1059-1063: Start Over
StartOver ==
    /\ NoScriptRuns
    /\ ColumnsShown
    /\ RunScript("upload", <<>>, <<>>, <<>>, <<>>, <<>>, <<>>)
    /\ processing_logs' = <<>>

NextSession ==
    \/ NavigateTo
    \/ ResetAll
    \/ ChangeUploadedFiles
    \/ DeleteFile
    \/ ExtractSheetNames
    \/ NextSelectSheets
    \/ BackToUpload
    \/ SelectAllSheets
    \/ DeselectAllSheets
    \/ ToggleSheet
    \/ NextConsolidatePage
    \/ ConsolidateGoBack
    \/ ClickStartConsolidation
    \/ EnterFile
    \/ SkipMissingSheet
    \/ LoadAndAccumulate
    \/ LoadEmpty
    \/ LoadFailed
    \/ FinishNoData
    \/ FinishConcat
    \/ FinishConcatRaises
    \/ SelectAllColumns
    \/ DeselectAllColumns
    \/ ToggleColumn
    \/ BackToSheets
    \/ ProcessAgain
    \/ StartOver

SpecSession == InitSession /\ [][NextSession]_vars

(***************************************************************************)
(* Properties of the name functions (checked under SpecNames).             *)
(***************************************************************************)
\* the name sanitize_column_name gives to position i (1-based) of a list
SanitizedAt(cs, i) == sanitize_column_name(cs[i], i - 1)

\* how many of the positions 1..i of cs carry the same sanitized name as i
OccurrenceNo(cs, i) ==
    Cardinality({j \in 1..i : SanitizedAt(cs, j) = SanitizedAt(cs, i)})

IsPrefixOf(p, s) == Len(p) <= Len(s) /\ SubSeq(s, 1, Len(p)) = p

NoDuplicates(s) == \A i, j \in DOMAIN s : i # j => s[i] # s[j]

\* C1: make_unique_columns returns a list of the same length as its input,
\* with no two equal entries, whose i-th entry is derived from (starts with
\* the sanitized form of) the i-th input.
C1_UniqueSameLengthSameOrder ==
    pc = "unique" =>
        /\ Len(unique_cols) = Len(cols)
        /\ NoDuplicates(unique_cols)
        /\ \A i \in DOMAIN cols : IsPrefixOf(SanitizedAt(cols, i), unique_cols[i])

\* C2: the first occurrence of a sanitized name L is emitted unchanged and
\* its k-th occurrence (k >= 2) is emitted as L_{k-1}, counted per name.
C2_KthOccurrenceSuffix ==
    pc = "unique" =>
        /\ DOMAIN unique_cols = DOMAIN cols
        /\ \A i \in DOMAIN cols :
              LET L == SanitizedAt(cols, i)
                  k == OccurrenceNo(cols, i)
              IN unique_cols[i] =
                     IF k = 1 THEN L ELSE L \o <<"_">> \o IntToStr(k - 1)

C2_Witness ==
    /\ pc = "unique"
    /\ \E i \in DOMAIN cols : OccurrenceNo(cols, i) = 3
    /\ \E i \in DOMAIN cols : cols[i] = NaN

\* the values sanitize_column_name replaces by the placeholder, stated from
\* the text of the value and not from the function
AllWhitespace(s) == \A k \in DOMAIN s : s[k] \in Whitespace

IsTrimOf(t, s) ==
    \E a \in 0..Len(s) : \E b \in a..Len(s) :
        /\ t = SubSeq(s, a + 1, b)
        /\ \A k \in 1..a : s[k] \in Whitespace
        /\ \A k \in (b + 1)..Len(s) : s[k] \in Whitespace
        /\ t # <<>> => (t[1] \notin Whitespace /\ t[Len(t)] \notin Whitespace)

SpellsNanOrNone(t) ==
    \/ /\ Len(t) = 3
       /\ t[1] \in {"n", "N"} /\ t[2] \in {"a", "A"} /\ t[3] \in {"n", "N"}
    \/ /\ Len(t) = 4
       /\ t[1] \in {"n", "N"} /\ t[2] \in {"o", "O"}
       /\ t[3] \in {"n", "N"} /\ t[4] \in {"e", "E"}

Degenerate(v) ==
    \/ v = None
    \/ v = NaN
    \/ AllWhitespace(v)
    \/ \E t \in {SubSeq(v, a, b) : a, b \in 1..Len(v)} :
          IsTrimOf(t, v) /\ SpellsNanOrNone(t)

\* C3: sanitize_column_name returns a non-empty string: Column_i for an
\* absent, NaN, blank or nan/none value, the trimmed text otherwise.
C3_SanitizeNonEmptyTrimmed ==
    clean_col # NoResult =>
        /\ clean_col # <<>>
        /\ Degenerate(col) => clean_col = ColumnPlaceholder(index)
        /\ ~Degenerate(col) => IsTrimOf(clean_col, col)

C3_Witness ==
    /\ clean_col = ColumnPlaceholder(1)
    /\ col = <<"n","A","n">>
    /\ \E i \in DOMAIN cols : ~Degenerate(cols[i]) /\ cols[i] # Strip(cols[i])

(***************************************************************************)
(* Properties of the header detectors (checked under SpecHeader).          *)
(***************************************************************************)
SameLetter(a, b) == LowerChar(a) = LowerChar(b)

\* text t occurs in the cell, letter case ignored
OccursIgnoringCase(t, cell) ==
    \E k \in 0..(Len(cell) - Len(t)) :
        \A m \in 1..Len(t) : SameLetter(cell[k + m], t[m])

\* the grid has at least 6 rows and row index 4 holds "invoice details"
InvoiceGrid(grid) ==
    /\ Len(grid) >= 6
    /\ \E j \in DOMAIN grid[5] :
          grid[5][j] # NaN /\ OccursIgnoringCase(InvoiceDetails, grid[5][j])

\* the row indexes (0-based) from 6 on that hold a cell, and the column
\* positions that hold a cell in one of those rows
DataRowsWithCells(grid) ==
    {r \in 6..(Len(grid) - 1) : \E j \in DOMAIN grid[r + 1] : grid[r + 1][j] # NaN}

ColumnsWithData(grid) ==
    {j \in 1..GridWidth(grid) : \E r \in 6..(Len(grid) - 1) : grid[r + 1][j] # NaN}

SetMin(S) == CHOOSE x \in S : \A y \in S : x <= y

\* C9 as claimed: on a grid of at least 6 rows with "invoice details" in
\* row 4 the two-row strategy returns as many header names as the grid has
\* columns, and its first data row is the grid's row 6.
C9_HeaderCountAndFirstRow ==
    (pc = "two_row" /\ InvoiceGrid(df_raw)) =>
        /\ df_processed # <<>>
        /\ Len(df_processed[1].columns) = GridWidth(df_raw)
        /\ Len(df_raw) >= 7 =>
              /\ df_processed[1].rows # <<>>
              /\ df_processed[1].rows[1] = FillNa(<<df_raw[7]>>, Sentinel)[1]

\* C9 amended: the strategy never declines on such a grid; the returned
\* table has one header name per grid column holding a cell in some row of
\* index >= 6, and its first data row is the first row of index >= 6 that
\* is not entirely absent, restricted to those columns.  When no column is
\* empty in the data rows and row 6 holds a cell, that is the grid's column
\* count and the grid's row 6.
C9_HeaderCountAndFirstRowAfterCleaning ==
    (pc = "two_row" /\ InvoiceGrid(df_raw)) =>
        /\ df_processed # <<>>
        /\ Len(df_processed[1].columns) = Cardinality(ColumnsWithData(df_raw))
        /\ Len(df_processed[1].rows) = Cardinality(DataRowsWithCells(df_raw))
        /\ \A r \in DOMAIN df_processed[1].rows :
              Len(df_processed[1].rows[r]) = Len(df_processed[1].columns)
        /\ DataRowsWithCells(df_raw) # {} =>
              LET first == df_raw[SetMin(DataRowsWithCells(df_raw)) + 1]
              IN df_processed[1].rows[1] =
                     FillNa(<<SelectPositions(first, ColumnsWithData(df_raw), 1)>>, Sentinel)[1]
        /\ (ColumnsWithData(df_raw) = 1..GridWidth(df_raw) /\ 6 \in DataRowsWithCells(df_raw)) =>
              /\ Len(df_processed[1].columns) = GridWidth(df_raw)
              /\ df_processed[1].rows[1] = FillNa(<<df_raw[7]>>, Sentinel)[1]

C9_Witness ==
    /\ pc = "two_row"
    /\ InvoiceGrid(df_raw)
    /\ GridWidth(df_raw) = 2
    /\ ColumnsWithData(df_raw) = {2}
    /\ DataRowsWithCells(df_raw) = {7}
    /\ df_processed # <<>>
    /\ Len(df_processed[1].columns) = 1

\* the rows find_header_row may report: among the first 20, with a cell
\* that is not absent and holds the marker, letter case ignored
MarkerRows(grid, text) ==
    {i \in 0..(Min(20, Len(grid)) - 1) :
        \E j \in DOMAIN grid[i + 1] :
            grid[i + 1][j] # NaN /\ OccursIgnoringCase(text, grid[i + 1][j])}

\* C10: find_header_row returns the smallest row index below min(20, rows)
\* with a non-absent cell holding the marker in any letter case, and no
\* index when there is none (a marker at row 20 or later is never found).
C10_FirstMarkerRowWithin20 ==
    pc = "marker" =>
        IF MarkerRows(df_raw, search_text) = {}
        THEN header_idx = <<>>
        ELSE header_idx = <<SetMin(MarkerRows(df_raw, search_text))>>

C10_Witness ==
    /\ pc = "marker"
    /\ search_text = GstinOfSupplier
    /\ Len(df_raw) = 26
    /\ OccursIgnoringCase(GstinOfSupplier, df_raw[26][1])
    /\ OccursIgnoringCase(GstinOfSupplier, df_raw[21][1])
    /\ header_idx = <<>>

(***************************************************************************)
(* Properties of a consolidation run (checked under SpecConsolidate).      *)
(***************************************************************************)
RunEnded == pc \in {"returned", "no_data", "failed"}

\* the (file, sheet) positions, files outer and selected sheets inner
PairsInOrder ==
    [k \in 1..(Len(files_data) * Len(selected_sheets)) |->
        <<(k - 1) \div Len(selected_sheets), (k - 1) % Len(selected_sheets)>>]

FileOf(p) == files_data[p[1] + 1]
SheetOf(p) == selected_sheets[p[2] + 1]

SheetListed(p) == InList(SheetOf(p), get_sheet_names(FileOf(p).content, FileOf(p).name).sheets)

\* what becomes of a pair: skipped, failed, empty or accumulated
PairOutcome(p) ==
    IF ~SheetListed(p) THEN "skipped"
    ELSE LET got == LoadTable[FileOf(p), SheetOf(p)] IN
         IF got.raised THEN "failed"
         ELSE IF got.df.rows = <<>> THEN "empty"
         ELSE IF TagFrame(got.df, FileOf(p).name, SheetOf(p)) = <<>> THEN "failed"
         ELSE "accumulated"

RECURSIVE SumLen(_)
SumLen(frames) == IF frames = <<>> THEN 0 ELSE Len(Head(frames).rows) + SumLen(Tail(frames))

\* position (1-based) of the first row of frame k in the stacked rows, minus 1
RowOffset(frames, k) == SumLen(SubSeq(frames, 1, k - 1))

\* the labels of all accumulated frames, one after the other
RECURSIVE AllLabels(_)
AllLabels(frames) == IF frames = <<>> THEN <<>> ELSE Head(frames).columns \o AllLabels(Tail(frames))

FirstIndex(x, list) == SetMin({k \in DOMAIN list : list[k] = x})

\* C4: on success the consolidated columns are the union of the accumulated
\* tables' columns in order of first occurrence, every accumulated table
\* contributes exactly its own rows, and a cell under a column its source
\* table did not have holds the sentinel "-".
C4_SchemaUnion ==
    pc = "returned" =>
        LET cdf == consolidated_df[1]
            labels == AllLabels(all_dataframes)
        IN /\ NoDuplicates(cdf.columns)
           /\ {cdf.columns[k] : k \in DOMAIN cdf.columns} = {labels[k] : k \in DOMAIN labels}
           /\ \A a, b \in DOMAIN cdf.columns :
                 a < b => FirstIndex(cdf.columns[a], labels) < FirstIndex(cdf.columns[b], labels)
           /\ Len(cdf.rows) = SumLen(all_dataframes)
           /\ \A k \in DOMAIN all_dataframes : \A r \in DOMAIN all_dataframes[k].rows :
                 \A c \in DOMAIN cdf.columns :
                    LET cell == cdf.rows[RowOffset(all_dataframes, k) + r][c]
                        src == all_dataframes[k]
                    IN IF InList(cdf.columns[c], src.columns)
                       THEN \E j \in DOMAIN src.columns :
                               src.columns[j] = cdf.columns[c] /\ cell = src.rows[r][j]
                       ELSE cell = Sentinel

\* the rows a pair's tagged table shows under the final labels
ExpectedRows(p, labels) ==
    IF PairOutcome(p) # "accumulated" THEN <<>>
    ELSE LET df == TagFrame(LoadTable[FileOf(p), SheetOf(p)].df, FileOf(p).name, SheetOf(p))[1]
         IN IF df.columns = labels THEN df.rows
            ELSE [r \in DOMAIN df.rows |->
                    [c \in DOMAIN labels |->
                        IF InList(labels[c], df.columns)
                        THEN df.rows[r][FirstIndex(labels[c], df.columns)]
                        ELSE Sentinel]]

RECURSIVE ExpectedRowsFrom(_, _)
ExpectedRowsFrom(k, labels) ==
    IF k > Len(PairsInOrder) THEN <<>>
    ELSE ExpectedRows(PairsInOrder[k], labels) \o ExpectedRowsFrom(k + 1, labels)

\* C5: the pairs are visited files outer, selected sheets inner, in the
\* given order, and the consolidated rows are the rows of the pairs in that
\* order, each pair's rows in the order of its loaded table.
C5_RowsInPairOrder ==
    /\ Len(status_text) <= Len(PairsInOrder)
    /\ status_text = SubSeq(PairsInOrder, 1, Len(status_text))
    /\ RunEnded => status_text = PairsInOrder
    /\ pc = "returned" =>
          consolidated_df[1].rows = ExpectedRowsFrom(1, consolidated_df[1].columns)

C5_Witness ==
    /\ pc = "returned"
    /\ Len(files_data) = 2 /\ files_data[1] # files_data[2]
    /\ Len(selected_sheets) = 2
    /\ Cardinality({k \in DOMAIN PairsInOrder : PairOutcome(PairsInOrder[k]) = "accumulated"}) = 3
    /\ PairOutcome(PairsInOrder[2]) # "accumulated"
    /\ Len(consolidated_df[1].rows) >= 4

IsCompleteEntry(e) == e.what = "Consolidation complete"

\* C6: the run fails with the no-data error exactly when no pair was
\* accumulated; then no consolidated table is returned and no final
\* consolidation-complete entry is logged.
C6_NoDataIffNothingAccumulated ==
    RunEnded =>
        /\ pc = "no_data" <=>
              \A k \in DOMAIN PairsInOrder : PairOutcome(PairsInOrder[k]) # "accumulated"
        /\ pc = "no_data" =>
              /\ consolidated_df = <<>>
              /\ \A k \in DOMAIN processing_logs : ~IsCompleteEntry(processing_logs[k])

C6_Witness ==
    /\ pc = "no_data"
    /\ \E k \in DOMAIN PairsInOrder : PairOutcome(PairsInOrder[k]) = "skipped"
    /\ \E k \in DOMAIN PairsInOrder : PairOutcome(PairsInOrder[k]) = "empty"
    /\ \E k \in DOMAIN PairsInOrder : PairOutcome(PairsInOrder[k]) = "failed"

CountEntries(test(_)) ==
    Cardinality({k \in DOMAIN processing_logs : test(processing_logs[k])})

\* C7: a run ends by returning a table or by the no-data error and in no
\* other way; a pair whose load or tagging fails leaves an error entry
\* naming file and sheet, adds no rows, and every pair is still processed.
C7_OnlyNoDataAborts ==
    RunEnded =>
        /\ pc \in {"returned", "no_data"}
        /\ status_text = PairsInOrder
        /\ \A k \in DOMAIN PairsInOrder :
              PairOutcome(PairsInOrder[k]) = "failed" =>
                 \E e \in DOMAIN processing_logs :
                    /\ processing_logs[e].type = "error"
                    /\ processing_logs[e].file = FileOf(PairsInOrder[k]).name
                    /\ processing_logs[e].sheet = SheetOf(PairsInOrder[k])
        /\ Len(all_dataframes) =
              Cardinality({k \in DOMAIN PairsInOrder : PairOutcome(PairsInOrder[k]) = "accumulated"})

\* C8: a pair whose sheet is not in the file's sheet list gets one warning
\* entry, is not handed to the loader, accumulates nothing, and the loop
\* goes on to the next pair.
C8_MissingSheetSkipped ==
    /\ \A n \in DOMAIN status_text :
          ~SheetListed(status_text[n]) =>
             LET f == FileOf(status_text[n]).name
                 sh == SheetOf(status_text[n])
                 IsWarningFor(e) == e.what = "Sheet not found in" /\ e.file = f /\ e.sheet = sh
                 IsEntryFor(e) == e.file = f /\ e.sheet = sh
             IN /\ CountEntries(IsWarningFor) =
                      Cardinality({m \in DOMAIN status_text :
                          FileOf(status_text[m]).name = f /\ SheetOf(status_text[m]) = sh})
                /\ CountEntries(IsEntryFor) = CountEntries(IsWarningFor)
                /\ \A k \in DOMAIN processing_logs :
                      IsWarningFor(processing_logs[k]) => processing_logs[k].type = "warning"
                /\ ~InList(status_text[n], loader_calls)
                /\ \A k \in DOMAIN all_dataframes : \A r \in DOMAIN all_dataframes[k].rows :
                      ~(all_dataframes[k].rows[r][1] = f /\ all_dataframes[k].rows[r][2] = sh)
    /\ RunEnded => status_text = PairsInOrder

C8_Witness ==
    /\ RunEnded
    /\ \E n \in DOMAIN status_text :
          FileOf(status_text[n]).name = NameBad /\ ~SheetListed(status_text[n])
    /\ \E n \in DOMAIN status_text :
          /\ FileOf(status_text[n]).name = NameApr
          /\ SheetOf(status_text[n]) = SheetB2B
          /\ ~SheetListed(status_text[n])
    /\ \E n \in DOMAIN status_text : n < Len(status_text) /\ ~SheetListed(status_text[n])

\* the processed pair's sheet is listed, its load raised nothing and the
\* loaded table has a row
LoadedNonEmpty(p) ==
    /\ SheetListed(p)
    /\ ~LoadTable[FileOf(p), SheetOf(p)].raised
    /\ LoadTable[FileOf(p), SheetOf(p)].df.rows # <<>>

\* the processed pairs with a given property, in processing order
PairsSoFar(test(_)) ==
    SelectPositions(status_text, {n \in DOMAIN status_text : test(status_text[n])}, 1)

\* frame df carries the tags of pair p in its first two columns
TaggedFor(df, p) ==
    /\ Len(df.columns) >= 2
    /\ df.columns[1] = ColSourceFile
    /\ df.columns[2] = ColSheetName
    /\ \A r \in DOMAIN df.rows :
          df.rows[r][1] = FileOf(p).name /\ df.rows[r][2] = SheetOf(p)

\* C11: every pair loaded with a non-empty table is in the accumulator, in
\* processing order, with SourceFile and SheetName as first two columns
\* holding the pair's file name and sheet in every row; the consolidated
\* table starts with those two columns and each of its rows names the pair
\* it was read from.
C11_EveryLoadedPairTagged ==
    LET loaded == PairsSoFar(LoadedNonEmpty) IN
    /\ Len(all_dataframes) = Len(loaded)
    /\ \A k \in DOMAIN loaded :
          k \in DOMAIN all_dataframes /\ TaggedFor(all_dataframes[k], loaded[k])
    /\ pc = "returned" =>
          LET cdf == consolidated_df[1] IN
          /\ Len(cdf.columns) >= 2
          /\ cdf.columns[1] = ColSourceFile
          /\ cdf.columns[2] = ColSheetName
          /\ Len(cdf.rows) = SumLen(all_dataframes)
          /\ \A k \in DOMAIN loaded : k \in DOMAIN all_dataframes =>
                \A r \in DOMAIN all_dataframes[k].rows :
                    LET row == cdf.rows[RowOffset(all_dataframes, k) + r]
                    IN row[1] = FileOf(loaded[k]).name /\ row[2] = SheetOf(loaded[k])

IsAccumulated(p) == PairOutcome(p) = "accumulated"

\* C11 for the pairs whose table has no column named SourceFile or SheetName
C11_EveryTaggablePairTagged ==
    LET loaded == PairsSoFar(IsAccumulated) IN
    /\ Len(all_dataframes) = Len(loaded)
    /\ \A k \in DOMAIN loaded : TaggedFor(all_dataframes[k], loaded[k])
    /\ pc = "returned" =>
          LET cdf == consolidated_df[1] IN
          /\ Len(cdf.columns) >= 2
          /\ cdf.columns[1] = ColSourceFile
          /\ cdf.columns[2] = ColSheetName
          /\ Len(cdf.rows) = SumLen(all_dataframes)
          /\ \A k \in DOMAIN loaded :
                \A r \in DOMAIN all_dataframes[k].rows :
                    LET row == cdf.rows[RowOffset(all_dataframes, k) + r]
                    IN row[1] = FileOf(loaded[k]).name /\ row[2] = SheetOf(loaded[k])

C11_Witness ==
    /\ pc = "returned"
    /\ Len(all_dataframes) = 3
    /\ consolidated_df[1].rows[1][1] # consolidated_df[1].rows[Len(consolidated_df[1].rows)][1]
    /\ \E n \in DOMAIN status_text : ~IsAccumulated(status_text[n])

\* the Table invariant: one value per declared column in every row, no
\* absent cell, no row of sentinels only, no repeated column name
TableInvariant(df) ==
    /\ \A r \in DOMAIN df.rows : Len(df.rows[r]) = Len(df.columns)
    /\ \A r \in DOMAIN df.rows : \A j \in DOMAIN df.rows[r] : df.rows[r][j] # NaN
    /\ \A r \in DOMAIN df.rows : \E j \in DOMAIN df.rows[r] : df.rows[r][j] # Sentinel
    /\ NoDuplicates(df.columns)

\* C12: every table the loader returned during the run and the consolidated
\* table satisfy the Table invariant.
C12_TableInvariantHolds ==
    /\ \A n \in DOMAIN loader_calls :
          LET got == LoadTable[FileOf(loader_calls[n]), SheetOf(loader_calls[n])]
          IN ~got.raised => TableInvariant(got.df)
    /\ pc = "returned" => TableInvariant(consolidated_df[1])

\* C12 for the runs in which no loaded header repeats a name
C12_TableInvariantUniqueHeaders ==
    (\A n \in DOMAIN loader_calls :
        NoDuplicates(LoadTable[FileOf(loader_calls[n]), SheetOf(loader_calls[n])].df.columns))
    => C12_TableInvariantHolds

OrderedSelection ==
    SelectPositions(consolidated_df[1].columns,
        {i \in DOMAIN consolidated_df[1].columns :
            InList(consolidated_df[1].columns[i], selected_columns)}, 1)

\* C13: whenever the session holds a consolidated table, the column
\* selection holds SourceFile and SheetName, and so does the export built
\* from it, whatever the user did before.
C13_ExportKeepsTags ==
    consolidated_df # <<>> =>
        /\ InList(ColSourceFile, selected_columns)
        /\ InList(ColSheetName, selected_columns)
        /\ InList(ColSourceFile, OrderedSelection)
        /\ InList(ColSheetName, OrderedSelection)

C13_Witness ==
    /\ pc = "no_data"
    /\ ColumnsShown
    /\ Len(selected_columns) = 3
    /\ Len(OrderedSelection) = 3

\* C15: a run starts with an empty log and only appends to it; when it has
\* ended with a table, the session's table is the one this run built, and
\* when it has ended with the no-data error the session holds no table.
C15_RunStartsAfresh ==
    /\ [][(pc' = "files" /\ pc \notin {"files", "sheets"}) => processing_logs' = <<>>]_vars
    /\ [][(pc \in {"files", "sheets"}) => IsPrefixOf(processing_logs, processing_logs')]_vars
    /\ [](pc = "returned" => consolidated_df = <<Concat(all_dataframes).df>>)
    /\ [](pc = "no_data" => consolidated_df = <<>>)

\* the log part of C15 alone
C15_LogStartsAfresh ==
    /\ [][(pc' = "files" /\ pc \notin {"files", "sheets"}) => processing_logs' = <<>>]_vars
    /\ [][(pc \in {"files", "sheets"}) => IsPrefixOf(processing_logs, processing_logs')]_vars
    /\ [](pc = "returned" => consolidated_df = <<Concat(all_dataframes).df>>)

(***************************************************************************)
(* Properties of the header strategies (C16 checked under SpecHeader, the  *)
(* others under SpecRead).                                                 *)
(***************************************************************************)
\* the grid has at least 6 rows and a cell of row index 4 holds "invoice
\* details" or "tax details", letter case ignored
TwoRowMarked(grid) ==
    /\ Len(grid) >= 6
    /\ \E j \in DOMAIN grid[5] :
          /\ grid[5][j] # NaN
          /\ \/ OccursIgnoringCase(InvoiceDetails, grid[5][j])
             \/ OccursIgnoringCase(TaxDetails, grid[5][j])

\* the name claimed for column position i (0-based) of a grid, before the
\* uniqueness pass
ClaimedCombinedName(grid, i) ==
    LET main == sanitize_column_name(grid[5][i + 1], i)
        sub == sanitize_column_name(grid[6][i + 1], i)
        placeholder == <<"C","o","l","u","m","n","_">> \o IntToStr(i)
    IN CASE main # placeholder /\ sub # placeholder -> main \o <<"_">> \o sub
         [] main # placeholder /\ sub = placeholder -> main
         [] main = placeholder /\ sub # placeholder -> sub
         [] OTHER -> placeholder

ClaimedCombinedNames(grid) ==
    [j \in 1..GridWidth(grid) |-> ClaimedCombinedName(grid, j - 1)]

\* C16: on a grid of at least 6 rows whose row 4 holds a two-row marker, the
\* table the two-row strategy returns is the cleaned table of the rows from
\* index 6 on under the uniqueness pass of the names main_sub / main / sub /
\* Column_i (by which of main and sub differ from Column_i); on any other
\* grid the strategy returns nothing and logs nothing.
C16_CombinedNames ==
    pc = "two_row" =>
        IF TwoRowMarked(df_raw)
        THEN df_processed =
                 <<clean_dataframe(DataFrame(make_unique_columns(ClaimedCombinedNames(df_raw)),
                                             IlocFrom(df_raw, 6)))>>
        ELSE df_processed = <<>> /\ processing_logs = <<>>

C16_Witness ==
    /\ pc = "two_row"
    /\ TwoRowMarked(df_raw)
    /\ GridWidth(df_raw) = 2
    /\ df_raw[5][2] = NaN /\ df_raw[6][2] # NaN
    /\ df_processed # <<>>
    /\ df_processed[1].columns = <<TextInvoice \o <<"_">> \o TextA, TextA>>

C16_WitnessDeclines ==
    /\ pc = "two_row"
    /\ Len(df_raw) >= 6 /\ ~TwoRowMarked(df_raw)
    /\ df_processed = <<>>

\* a warning of the given detector is in the log
Warned(what) ==
    \E k \in DOMAIN processing_logs :
        processing_logs[k].type = "warning" /\ processing_logs[k].what = what

LastLogged == processing_logs[Len(processing_logs)]

\* the two-row strategy did not decline
TwoRowApplies ==
    TwoRowMarked(df_raw) /\ ~Warned("Error in two-row header detection")

\* the table of the marker-row strategy for header row h (0-based)
MarkerRowTable(grid, h) ==
    clean_dataframe(DataFrame(make_unique_columns(grid[h + 1]), IlocFrom(grid, h + 1)))

\* C17: read_file_with_header never fails once the raw grid is read; it
\* returns the two-row table whenever the two-row strategy does not decline
\* (also on a grid that holds the supplier marker), the marker-row table
\* when only the two-row strategy declined, and the fallback exactly when
\* both declined; a detector that raised has logged a warning, every entry
\* before the last is such a warning, and the load goes on to the next
\* strategy.
C17_StrategyOrder ==
    pc = "read" =>
        \A marker_rows \in {MarkerRows(df_raw, GstinOfSupplier)} :
           LET marker_row_applies ==
                   marker_rows # {} /\ ~Warned("Error finding header row")
           IN /\ df_processed # <<>>
              /\ processing_logs # <<>>
              /\ \A k \in 1..(Len(processing_logs) - 1) : processing_logs[k].type = "warning"
              /\ TwoRowApplies =>
                    /\ LastLogged.type = "success" /\ LastLogged.what = "Detected two-row header"
                    /\ df_processed = check_two_row_header(df_raw)
              /\ (~TwoRowApplies /\ marker_row_applies) =>
                    /\ LastLogged.type = "success" /\ LastLogged.what = "Found header at row"
                    /\ LastLogged.rows = SetMin(marker_rows) + 1
                    /\ df_processed = <<MarkerRowTable(df_raw, SetMin(marker_rows))>>
              /\ (LastLogged.what = "Loaded with default header")
                    <=> (~TwoRowApplies /\ ~marker_row_applies)
              /\ LastLogged.what = "Loaded with default header" => LastLogged.type = "info"

\* a grid matched by both heuristics is loaded by the two-row strategy
C17_Witness ==
    /\ pc = "read"
    /\ TwoRowMarked(df_raw)
    /\ MarkerRows(df_raw, GstinOfSupplier) # {}
    /\ LastLogged.what = "Detected two-row header"
    /\ df_processed # <<MarkerRowTable(df_raw, SetMin(MarkerRows(df_raw, GstinOfSupplier)))>>

\* both detectors raise on a grid both heuristics match: two warnings, then
\* the fallback
C17_WitnessDetectorsRaise ==
    /\ pc = "read"
    /\ TwoRowMarked(df_raw)
    /\ MarkerRows(df_raw, GstinOfSupplier) # {}
    /\ Len(processing_logs) = 3
    /\ LastLogged.what = "Loaded with default header"
    /\ df_processed # <<>>

\* the fallback was used by the call
FallbackUsed == pc = "read" /\ LastLogged.what = "Loaded with default header"

\* the table claimed for the fallback: row 0 sanitized and made unique as
\* header, every later row a data row, then cleaned
ClaimedFallbackTable(grid) ==
    clean_dataframe(DataFrame(make_unique_columns(grid[1]), IlocFrom(grid, 1)))

\* C19: when both other strategies decline on a grid with a first row, the
\* fallback returns the table whose header is row 0 with column i named
\* sanitize(row0[i], i) (an absent cell Column_i) and repeats suffixed _k,
\* and whose data rows are all later rows of the grid.
C19_FallbackHeaderFromRowZero ==
    (FallbackUsed /\ Len(df_raw) >= 1) =>
        df_processed = <<ClaimedFallbackTable(df_raw)>>

\* the part of C19 that holds: the fallback returns one data row for every
\* later grid row holding a cell, and a header that keeps the names of
\* row 0 which are neither absent nor repeated
C19_FallbackRowsAndPlainNames ==
    (FallbackUsed /\ Len(df_raw) >= 1) =>
        /\ df_processed # <<>>
        /\ df_processed[1].rows = ClaimedFallbackTable(df_raw).rows
        /\ Len(df_processed[1].columns) = Len(ClaimedFallbackTable(df_raw).columns)
        /\ (NoDuplicates(df_raw[1]) /\ \A j \in DOMAIN df_raw[1] : df_raw[1][j] # NaN) =>
              df_processed[1].columns = ClaimedFallbackTable(df_raw).columns

(***************************************************************************)
(* Accumulation (checked under SpecConsolidate).                           *)
(***************************************************************************)
\* the entries of the log with a given severity and message
LoggedEntries(type, what) ==
    {k \in DOMAIN processing_logs :
        processing_logs[k].type = type /\ processing_logs[k].what = what}

\* the log holds the entry of the given message for pair p
LoggedFor(type, what, p) ==
    \E k \in LoggedEntries(type, what) :
        processing_logs[k].file = FileOf(p).name /\ processing_logs[k].sheet = SheetOf(p)

LoadedEmpty(p) ==
    /\ SheetListed(p)
    /\ ~LoadTable[FileOf(p), SheetOf(p)].raised
    /\ LoadTable[FileOf(p), SheetOf(p)].df.rows = <<>>

IsEmptyOutcome(p) == PairOutcome(p) = "empty"

\* C18: the accumulator holds one table for each processed pair whose sheet
\* is available, whose load raised no error and whose table has a row, and
\* for no other pair; each such pair, and no other, has a success (Loaded)
\* entry; each pair loaded with zero rows has one warning entry; the number
\* of accumulated tables is the number of Loaded entries.
C18_AccumulatedIffLoadedNonEmpty ==
    /\ Len(all_dataframes) = Len(PairsSoFar(LoadedNonEmpty))
    /\ \A n \in DOMAIN status_text :
          LoggedFor("success", "Loaded", status_text[n]) <=> LoadedNonEmpty(status_text[n])
    /\ Cardinality(LoggedEntries("warning", "No data in")) = Len(PairsSoFar(LoadedEmpty))
    /\ Len(all_dataframes) = Cardinality(LoggedEntries("success", "Loaded"))

\* the part of C18 that holds: the accumulator holds one table per Loaded
\* entry, one per pair that was read with a row and could be tagged, and a
\* pair read with zero rows adds one warning and no table
C18_AccumulatedCountsLoadedEntries ==
    /\ Len(all_dataframes) = Cardinality(LoggedEntries("success", "Loaded"))
    /\ Len(all_dataframes) = Len(PairsSoFar(IsAccumulated))
    /\ \A n \in DOMAIN status_text :
          LoggedFor("success", "Loaded", status_text[n]) <=> IsAccumulated(status_text[n])
    /\ Cardinality(LoggedEntries("warning", "No data in")) = Len(PairsSoFar(IsEmptyOutcome))

(***************************************************************************)
(* Idempotence of make_unique_columns (checked under SpecNames).           *)
(***************************************************************************)
\* C20: make_unique_columns applied to its own result returns that result:
\* make_unique_columns(make_unique_columns(x)) = make_unique_columns(x).
C20_MakeUniqueIdempotent ==
    pc = "unique" => make_unique_columns(unique_cols) = unique_cols

\* the part of C20 that holds: a second pass changes nothing when the first
\* returned a list without repeats
C20_IdempotentWhenUnique ==
    (pc = "unique" /\ NoDuplicates(unique_cols)) =>
        make_unique_columns(unique_cols) = unique_cols

(***************************************************************************)
(* Start Consolidation (checked under SpecSession).                        *)
(***************************************************************************)
\* a consolidate_data call is running or has ended in this script run
RunStarted == pc \in {"files", "sheets", "returned", "no_data", "failed"}

\* C21: whatever the user did before, a consolidate_data call was started on
\* the consolidate page with a file list and a selected-sheet list that are
\* both non-empty, so total_operations >= 1 and every progress fraction has
\* a denominator of at least 1.
C21_StartOnlyWithFilesAndSheets ==
    RunStarted =>
        /\ page = "consolidate"
        /\ files_data # <<>>
        /\ selected_sheets # <<>>
        /\ total_operations = Len(files_data) * Len(selected_sheets)
        /\ total_operations >= 1
        /\ \A k \in DOMAIN progress : progress[k][2] >= 1

\* a second run, started after the first one's table was shown
C21_Witness ==
    /\ pc = "sheets"
    /\ consolidated_df # <<>>
    /\ total_operations = 2
    /\ Len(progress) = 2

\* the consolidate page is on screen without selected sheets, or without
\* files: Start Consolidation is not drawn
C21_WitnessNoSheets ==
    /\ pc = "idle" /\ page = "consolidate"
    /\ files_data # <<>> /\ selected_sheets = <<>>

C21_WitnessNoFiles ==
    /\ pc = "idle" /\ page = "consolidate"
    /\ files_data = <<>>

====
